---- MODULE Spec2Model ----
(***************************************************************************)
(* The orchestration workflow of main.py (the POST handler analyze) and    *)
(* its helper last_n_words, with the two planner entry points of gemini.py *)
(* and the code runner as collaborators whose answers are drawn from small *)
(* sets.                                                                   *)
(*                                                                         *)
(* Texts of the workflow (question, error messages, captured output, file  *)
(* contents as read in text mode) are modelled by their sequence of        *)
(* whitespace-separated words.  last_n_words itself is modelled on         *)
(* character sequences, with the split and the join written out.           *)
(***************************************************************************)
EXTENDS Integers, Sequences, FiniteSets, TLC

VARIABLES
    pc,                 \* position of the handler between two awaits
    question_text,      \* main.py:93  the question, grows by error feedback
    submitted,          \* the question as extracted from the form (never changed afterwards)
    attempt,            \* main.py:126 / 179 loop index of the current planning stage
    response,           \* main.py:124 last answer of parse_question_with_llm kept by the handler
    execution_result,   \* main.py:148 / 168 last outcome of the data-collection execution
    count,              \* main.py:152 retry counter of the execution loop
    new_question_text,  \* main.py:156 prompt of the last re-planning call
    response_questions, \* main.py:178 input of answer_with_data
    gpt_ans,            \* main.py:177 last answer of answer_with_data kept by the handler
    final_result,       \* main.py:196 outcome of the final execution
    result_file,        \* result.json of the request folder: presence, text, who wrote it
    http,               \* the JSONResponse returned (or the exception that escaped)
    calls,              \* the collaborator calls made so far, in order
    offered,            \* what the most recent planner call returned (None when it raised)
    ran,                \* the code and libraries given to the most recent run_python_code
    dS, dN, dOut, dpc   \* one call of last_n_words: s, n, the returned string, position

vars == <<pc, question_text, submitted, attempt, response, execution_result, count,
          new_question_text, response_questions, gpt_ans, final_result, result_file,
          http, calls, offered, ran, dS, dN, dOut, dpc>>

wfvars == <<pc, question_text, submitted, attempt, response, execution_result, count,
            new_question_text, response_questions, gpt_ans, final_result, result_file,
            http, calls, offered, ran>>

dvars == <<dS, dN, dOut, dpc>>

(***************************************************************************)
(* Bounds of the model.                                                    *)
(***************************************************************************)
MaxStrLen == 4      \* longest character string given to last_n_words
MaxN == 3           \* largest word count given to last_n_words
MaxFields == 2      \* most fields of a submitted form
LongLen == 51       \* words of the long error message / captured output

Max(a, b) == IF a > b THEN a ELSE b
Min(a, b) == IF a < b THEN a ELSE b

(***************************************************************************)
(* last_n_words (main.py:32-36) on character sequences.                    *)
(***************************************************************************)
Chars == {"a", "b", " "}

IsSpace(c) == c = " "

\* str.split() with no separator: maximal runs of non-whitespace characters.
RECURSIVE SplitFrom(_, _, _, _)
SplitFrom(s, i, cur, acc) ==
    IF i > Len(s)
    THEN IF cur = <<>> THEN acc ELSE Append(acc, cur)
    ELSE IF IsSpace(s[i])
         THEN SplitFrom(s, i + 1, <<>>, IF cur = <<>> THEN acc ELSE Append(acc, cur))
         ELSE SplitFrom(s, i + 1, Append(cur, s[i]), acc)

split(s) == SplitFrom(s, 1, <<>>, <<>>)

\* ' '.join(words)
RECURSIVE join(_)
join(words) ==
    IF words = <<>> THEN <<>>
    ELSE IF Len(words) = 1 THEN words[1]
    ELSE words[1] \o <<" ">> \o join(Tail(words))

\* Python's words[i:] for any integer i: a negative i counts from the end,
\* and the start is clamped to 0..len(words).
SliceFrom(words, i) ==
    LET n == Len(words)
        start == IF i < 0 THEN Max(n + i, 0) ELSE Min(i, n)
    IN  SubSeq(words, start + 1, n)

\* words[-n:]
LastWords(words, n) == SliceFrom(words, 0 - n)

last_n_words(s, n) == join(LastWords(split(s), n))

(***************************************************************************)
(* Values exchanged with the collaborators.                                *)
(***************************************************************************)
max_attempts_four == 3 + 1
max_attempts == 3   \* main.py:125
MaxRetries_four == 3 + 1
MaxRetries == 3     \* main.py:153  count < 3
DigestWords_more == 50 + 1
DigestWords == 50   \* main.py:138, 155, 188  last_n_words(..., 50)

\* Python values that are None, a str or a list of str.
PyNone == [tag |-> "None", words |-> <<>>]
PyStr(w) == [tag |-> "str", words |-> w]
PyList(items) == [tag |-> "list", words |-> items]

\* str(v), as words: str(None) is "None", str(['a', 'b']) is "['a', 'b']".
str(v) ==
    CASE v.tag = "None" -> <<"None">>
      [] v.tag = "str" -> v.words
      [] OTHER ->
            IF v.words = <<>> THEN <<"[]">>
            ELSE [i \in 1..Len(v.words) |->
                    (IF i = 1 THEN "[" ELSE "") \o "'" \o v.words[i] \o "'"
                    \o (IF i = Len(v.words) THEN "]" ELSE ",")]

\* Only None counts as missing.
Truthy_not_none(v) == v.tag # "None"

\* bool(v) of such a value: None, "" and [] are falsy.
Truthy(v) == v.tag # "None" /\ v.words # <<>>

Q1 == <<"What", "is", "X?">>
Q2 == <<"Sum", "Y">>

ErrShort == <<"bad", "JSON">>
ErrLong == [i \in 1..LongLen |-> IF i = 1 THEN "head" ELSE "w"]
Messages == {ErrShort, ErrLong}

\* What json.loads(response.text) can give (gemini.py:97, 158): a dict with some of
\* the keys code, libraries, questions; or a JSON value that is no dict.
NoneResp ==
    [py |-> "None", keys |-> {}, code |-> "", libraries |-> "", questions |-> PyNone]
PlanA ==
    [py |-> "dict", keys |-> {"code", "libraries", "questions"}, code |-> "scrape_a",
     libraries |-> "['pandas']", questions |-> PyList(<<"q1", "q2">>)]
PlanB ==
    [py |-> "dict", keys |-> {"code"}, code |-> "scrape_b",
     libraries |-> "", questions |-> PyNone]
PlanNoCode ==
    [py |-> "dict", keys |-> {"questions"}, code |-> "",
     libraries |-> "", questions |-> PyList(<<"q9">>)]
NotADict ==
    [py |-> "list", keys |-> {}, code |-> "", libraries |-> "", questions |-> PyNone]
AnalysisC ==
    [py |-> "dict", keys |-> {"code", "libraries"}, code |-> "analyse_c",
     libraries |-> "['numpy']", questions |-> PyNone]
AnalysisNoCode ==
    [py |-> "dict", keys |-> {"libraries"}, code |-> "",
     libraries |-> "['numpy']", questions |-> PyNone]

PlanResponses == {PlanA, PlanB, PlanNoCode, NotADict}
AnalysisResponses == {AnalysisC, AnalysisNoCode, NotADict}

Returned(r) == [type |-> "return", value |-> r, msg |-> <<>>]
Raised(m) == [type |-> "raise", value |-> NoneResp, msg |-> m]

\* parse_question_with_llm (gemini.py:33-97) returns a JSON value or raises.
parse_question_with_llm == {Returned(r) : r \in PlanResponses} \cup {Raised(m) : m \in Messages}
\* answer_with_data (gemini.py:109-158) returns a JSON value or raises.
answer_with_data == {Returned(r) : r \in AnalysisResponses} \cup {Raised(m) : m \in Messages}

\* Any dict is taken for a plan.
Accepted_any_dict(r) == r.py = "dict"

\* isinstance(response, dict) and "code" in response   (main.py:134, 162, 183)
Accepted(r) == r.py = "dict" /\ "code" \in r.keys

\* The check after the loop is missing.
TruthyResp_unchecked(r) == TRUE

\* bool(response): None is falsy, a dict or list is truthy unless empty.
TruthyResp(r) ==
    CASE r.py = "None" -> FALSE
      [] r.py = "dict" -> r.keys # {}
      [] OTHER -> TRUE

\* The libraries of the plan are dropped.
GetLibraries_default(r) == "[]"

\* response.get("libraries", [])
GetLibraries(r) == IF "libraries" \in r.keys THEN r.libraries ELSE "[]"
\* A key the plan does not have is read.
GetQuestions_wrong_key(r) == PyNone

\* response.get("questions")
GetQuestions(r) == IF "questions" \in r.keys THEN r.questions ELSE PyNone

\* Contents of result.json, as text.
TextObj1 == <<"{\"avg\":", "1}">>
TextObj2 == <<"{\"avg\":", "2}">>
TextBad == <<"avg", "=", "1">>
ResultTexts == {TextObj1, TextObj2, TextBad}
\* What the executed code may write there.
WrittenTexts == {TextObj2, TextBad}

NoFile == [present |-> FALSE, text |-> <<>>, by |-> "none"]
File(t, who) == [present |-> TRUE, text |-> t, by |-> who]

\* What the executed code does to result.json.
FileEffects ==
    {[op |-> "keep", text |-> <<>>], [op |-> "delete", text |-> <<>>]}
    \cup {[op |-> "write", text |-> t] : t \in WrittenTexts}

ApplyEffect(f, e, who) ==
    CASE e.op = "keep" -> f
      [] e.op = "delete" -> NoFile
      [] OTHER -> File(e.text, who)

\* run_python_code gives a mapping with code (1 on success) and output, or raises.
NoExec == [code |-> -1, output |-> <<>>]
ExecResults ==
    {[code |-> 1, output |-> <<"done">>]} \cup {[code |-> 0, output |-> o] : o \in Messages}
run_python_code ==
    {[type |-> "return", value |-> r, effect |-> e] : r \in ExecResults, e \in FileEffects}
    \cup {[type |-> "raise", value |-> NoExec, effect |-> [op |-> "keep", text |-> <<>>]]}

\* The status is read as an exit status, 0 for success.
Failed_exit_status(er) == er.code # 0

\* The arguments of run_python_code(response["code"], response.get("libraries", []))
\* (main.py:148, 168, 196).
NoRun == [code |-> "", libraries |-> ""]
RunArgs(r) == [code |-> r.code, libraries |-> GetLibraries(r)]

\* execution_result.get("code") != 1   (main.py:153, 172, 197)
Failed(er) == er.code # 1

\* A parser that never raises.
json_loads_lenient(t) ==
    CASE t = TextObj1 -> [ok |-> TRUE, data |-> [avg |-> 1]]
      [] t = TextObj2 -> [ok |-> TRUE, data |-> [avg |-> 2]]
      [] OTHER -> [ok |-> TRUE, data |-> [avg |-> 0]]

\* json.loads of the text of result.json: the data, or JSONDecodeError.
json_loads(t) ==
    CASE t = TextObj1 -> [ok |-> TRUE, data |-> [avg |-> 1]]
      [] t = TextObj2 -> [ok |-> TRUE, data |-> [avg |-> 2]]
      [] OTHER -> [ok |-> FALSE, data |-> [avg |-> 0]]

NoData == [avg |-> 0]

(***************************************************************************)
(* The submitted form (main.py:93-116).                                    *)
(***************************************************************************)
\* A text field has an empty filename; a file has a filename and its content.
FormFields ==
    {[name |-> "question", filename |-> "", content |-> <<>>],
     [name |-> "question", filename |-> "", content |-> Q1],
     [name |-> "qfile", filename |-> "question.txt", content |-> <<>>],
     [name |-> "qfile", filename |-> "question.txt", content |-> Q2],
     [name |-> "data", filename |-> "result.json", content |-> TextObj1],
     [name |-> "note", filename |-> "", content |-> <<"hello">>]}

\* form.items() yields each field name once.
Forms ==
    {f \in UNION {[1..n -> FormFields] : n \in 0..MaxFields} :
        \A i, j \in DOMAIN f : i # j => f[i].name # f[j].name}

\* The loop of main.py:97-111 on the question: the last question field or
\* question.txt file decides.
RECURSIVE ExtractQuestion(_, _, _)
ExtractQuestion(form, i, q) ==
    IF i > Len(form) THEN q
    ELSE LET v == form[i]
         IN  IF v.filename # ""
             THEN ExtractQuestion(form, i + 1,
                     IF v.filename = "question.txt" THEN PyStr(v.content) ELSE q)
             ELSE ExtractQuestion(form, i + 1,
                     IF v.name = "question" THEN PyStr(v.content) ELSE q)

\* The same loop on the request folder: every file is saved under its filename,
\* so an uploaded result.json is in the folder before any code runs.
RECURSIVE SaveFiles(_, _, _)
SaveFiles(form, i, f) ==
    IF i > Len(form) THEN f
    ELSE SaveFiles(form, i + 1,
            IF form[i].filename = "result.json" THEN File(form[i].content, "upload") ELSE f)

(***************************************************************************)
(* The responses of the handler.                                           *)
(***************************************************************************)
Reply(status, message) ==
    [status |-> status, message |-> message, details |-> <<>>, data |-> NoData]
NoReply == Reply(0, "")
\* An exception that no except clause of analyze catches leaves the handler.
Unhandled == Reply(500, "unhandled exception")

MissingInput == "Question is missing."
PlanningExhausted == "Failed to get valid plan from LLM."
ExecutionExhausted == "Failed to execute the generated code."
AnalysisPlanningExhausted == "Failed to get final answer logic from LLM."
FinalExecutionFailed == "Final code execution failed."
ResultMissing == "Result file not found."
ResultMalformed == "Result file is not valid JSON."
Complete == "result"

Call(op, res) == [op |-> op, res |-> res]

\* How a planner answer is logged: accepted (a mapping with a code field),
\* malformed (anything else that was returned) or raise.
PlanKind(o) ==
    IF o.type = "raise" THEN "raise"
    ELSE IF o.value.py = "dict" /\ "code" \in o.value.keys THEN "accepted" ELSE "malformed"

\* How an execution is logged: success (code 1), failure or raise.
ExecKind(o) ==
    IF o.type = "raise" THEN "raise"
    ELSE IF o.value.code = 1 THEN "success" ELSE "failure"

\* Nothing is appended.
PreviousAttemptFailed_nothing(msg) == <<>>

\* "\n\nPrevious attempt failed with error: {digest}"   (main.py:139, 188)
PreviousAttemptFailed(msg) ==
    <<"Previous", "attempt", "failed", "with", "error:">> \o LastWords(msg, DigestWords)

\* "{digest}. Please ...": the full stop sticks to the last word of the digest.
WithFullStop(w) ==
    IF w = <<>> THEN <<".">>
    ELSE [i \in 1..Len(w) |-> IF i = Len(w) THEN w[i] \o "." ELSE w[i]]

\* The whole output is put in the prompt.
CorrectionPrompt_whole_output(q, output) ==
    q \o <<"The", "previous", "code", "failed", "with", "this", "error:">>
      \o WithFullStop(output)
      \o <<"Please", "provide", "a", "corrected", "version.">>

\* main.py:155-156
CorrectionPrompt(q, output) ==
    q \o <<"The", "previous", "code", "failed", "with", "this", "error:">>
      \o WithFullStop(LastWords(output, DigestWords))
      \o <<"Please", "provide", "a", "corrected", "version.">>

(***************************************************************************)
(* The handler analyze, one action per await.                              *)
(***************************************************************************)
WorkflowInit ==
    /\ pc = "start"
    /\ question_text = PyNone
    /\ submitted = PyNone
    /\ attempt = 0
    /\ response = NoneResp
    /\ execution_result = NoExec
    /\ count = 0
    /\ new_question_text = <<>>
    /\ response_questions = PyNone
    /\ gpt_ans = NoneResp
    /\ final_result = NoExec
    /\ result_file = NoFile
    /\ http = NoReply
    /\ calls = <<>>
    /\ offered = NoneResp
    /\ ran = NoRun

DigestIdle ==
    /\ dS = <<>>
    /\ dN = 0
    /\ dOut = <<>>
    /\ dpc = "idle"

Init == WorkflowInit /\ DigestIdle

\* One retry too many.
LoopContinues_inclusive(er, cnt) == Failed(er) /\ cnt <= MaxRetries

\* while execution_result.get("code") != 1 and count < 3   (main.py:153)
LoopContinues(er, cnt) == Failed(er) /\ cnt < MaxRetries

\* Where the handler goes once an execution of the loop is known (main.py:153, 172).
AfterExecution(er, cnt) ==
    IF LoopContinues(er, cnt) THEN "replanning"
    ELSE IF Failed(er) THEN "done"
    ELSE "planning2"

\* main.py:93-118: the form is read, the files are saved, the question is checked.
Start ==
    /\ pc = "start"
    /\ \E form \in Forms :
         LET q == ExtractQuestion(form, 1, PyNone)
         IN  /\ submitted' = q
             /\ question_text' = q
             /\ result_file' = SaveFiles(form, 1, result_file)
             /\ IF ~Truthy(q)
                THEN /\ pc' = "done"
                     /\ http' = Reply(400, MissingInput)
                ELSE /\ pc' = "planning1"
                     /\ http' = http
    /\ UNCHANGED <<attempt, response, execution_result, count, new_question_text,
                   response_questions, gpt_ans, final_result, calls, offered, ran>>
    /\ UNCHANGED dvars

\* main.py:126-145: one attempt of the first planning loop, and the check after it.
Planning1 ==
    /\ pc = "planning1"
    /\ attempt < max_attempts
    /\ \E o \in parse_question_with_llm :
         LET ok == o.type = "return" /\ Accepted(o.value)
             kept == IF ok THEN o.value ELSE NoneResp
             over == ok \/ attempt + 1 >= max_attempts
         IN  /\ calls' = Append(calls, Call("plan", PlanKind(o)))
             /\ offered' = o.value
             /\ question_text' =
                  IF o.type = "raise"
                  THEN PyStr(question_text.words \o PreviousAttemptFailed(o.msg))
                  ELSE question_text
             /\ response' = kept
             /\ attempt' = IF over THEN attempt ELSE attempt + 1
             /\ IF ~over
                THEN pc' = "planning1" /\ http' = http
                ELSE IF ~TruthyResp(kept)
                     THEN pc' = "done" /\ http' = Reply(500, PlanningExhausted)
                     ELSE pc' = "executing1" /\ http' = http
    /\ UNCHANGED <<submitted, execution_result, count, new_question_text,
                   response_questions, gpt_ans, final_result, result_file, ran>>
    /\ UNCHANGED dvars

\* What follows an execution of the data-collection code (main.py:153, 172-178).
Proceed(er, cnt, resp) ==
    LET next == AfterExecution(er, cnt)
    IN  /\ pc' = next
        /\ http' = IF next = "done" THEN Reply(500, ExecutionExhausted) ELSE http
        /\ response_questions' =
             IF next = "planning2" THEN GetQuestions(resp) ELSE response_questions
        /\ attempt' = IF next = "planning2" THEN 0 ELSE attempt

\* main.py:148-152: the first execution.
Executing1 ==
    /\ pc = "executing1"
    /\ \E o \in run_python_code :
         /\ calls' = Append(calls, Call("run", ExecKind(o)))
         /\ ran' = RunArgs(response)
         /\ IF o.type = "raise"
            THEN /\ pc' = "done"
                 /\ http' = Unhandled
                 /\ UNCHANGED <<execution_result, count, result_file,
                                response_questions, attempt>>
            ELSE /\ execution_result' = o.value
                 /\ result_file' = ApplyEffect(result_file, o.effect, "exec1")
                 /\ count' = 0
                 /\ Proceed(o.value, 0, response)
    /\ UNCHANGED <<question_text, submitted, response, new_question_text,
                   gpt_ans, final_result, offered>>
    /\ UNCHANGED dvars

\* main.py:154-165: the prompt is rebuilt and the planner is asked again.
Replanning ==
    /\ pc = "replanning"
    /\ new_question_text' =
         CorrectionPrompt(question_text.words, execution_result.output)
    /\ \E o \in parse_question_with_llm :
         /\ calls' = Append(calls, Call("replan", PlanKind(o)))
         /\ offered' = o.value
         /\ IF o.type = "raise"
            THEN /\ pc' = "done"
                 /\ http' = Unhandled
                 /\ UNCHANGED <<response, count, response_questions, attempt>>
            ELSE /\ response' = o.value
                 /\ IF Accepted(o.value)
                    THEN /\ pc' = "retry_executing"
                         /\ UNCHANGED <<count, http, response_questions, attempt>>
                    ELSE /\ count' = count + 1
                         /\ Proceed(execution_result, count + 1, o.value)
    /\ UNCHANGED <<question_text, submitted, execution_result, gpt_ans,
                   final_result, result_file, ran>>
    /\ UNCHANGED dvars

\* main.py:168-170: the corrected code is executed.
RetryExecuting ==
    /\ pc = "retry_executing"
    /\ \E o \in run_python_code :
         /\ calls' = Append(calls, Call("rerun", ExecKind(o)))
         /\ ran' = RunArgs(response)
         /\ IF o.type = "raise"
            THEN /\ pc' = "done"
                 /\ http' = Unhandled
                 /\ UNCHANGED <<execution_result, count, result_file,
                                response_questions, attempt>>
            ELSE /\ execution_result' = o.value
                 /\ result_file' = ApplyEffect(result_file, o.effect, "exec1")
                 /\ count' = count + 1
                 /\ Proceed(o.value, count + 1, response)
    /\ UNCHANGED <<question_text, submitted, response, new_question_text,
                   gpt_ans, final_result, offered>>
    /\ UNCHANGED dvars

\* main.py:179-193: one attempt of the second planning loop, and the check after it.
Planning2 ==
    /\ pc = "planning2"
    /\ attempt < max_attempts
    /\ \E o \in answer_with_data :
         LET ok == o.type = "return" /\ Accepted(o.value)
             kept == IF ok THEN o.value ELSE NoneResp
             over == ok \/ attempt + 1 >= max_attempts
         IN  /\ calls' = Append(calls, Call("analysis", PlanKind(o)))
             /\ offered' = o.value
             /\ response_questions' =
                  IF o.type = "raise"
                  THEN PyStr(str(response_questions) \o PreviousAttemptFailed(o.msg))
                  ELSE response_questions
             /\ gpt_ans' = kept
             /\ attempt' = IF over THEN attempt ELSE attempt + 1
             /\ IF ~over
                THEN pc' = "planning2" /\ http' = http
                ELSE IF ~TruthyResp(kept)
                     THEN pc' = "done" /\ http' = Reply(500, AnalysisPlanningExhausted)
                     ELSE pc' = "executing2" /\ http' = http
    /\ UNCHANGED <<question_text, submitted, response, execution_result, count,
                   new_question_text, final_result, result_file, ran>>
    /\ UNCHANGED dvars

\* main.py:196-201: the final execution, once.
Executing2 ==
    /\ pc = "executing2"
    /\ \E o \in run_python_code :
         /\ calls' = Append(calls, Call("final", ExecKind(o)))
         /\ ran' = RunArgs(gpt_ans)
         /\ IF o.type = "raise"
            THEN /\ pc' = "done"
                 /\ http' = Unhandled
                 /\ UNCHANGED <<final_result, result_file>>
            ELSE /\ final_result' = o.value
                 /\ result_file' = ApplyEffect(result_file, o.effect, "exec2")
                 /\ IF Failed(o.value)
                    THEN /\ pc' = "done"
                         /\ http' = [Reply(500, FinalExecutionFailed)
                                       EXCEPT !.details = o.value.output]
                    ELSE /\ pc' = "reading"
                         /\ http' = http
    /\ UNCHANGED <<question_text, submitted, attempt, response, execution_result,
                   count, new_question_text, response_questions, gpt_ans, offered>>
    /\ UNCHANGED dvars

\* The parsed data is not put in the response.
ReadResult_no_data(f) ==
    IF ~f.present THEN Reply(500, ResultMissing)
    ELSE IF json_loads(f.text).ok THEN Reply(200, Complete)
    ELSE Reply(500, ResultMalformed)

\* main.py:204-215: result.json is read and returned.
ReadResult(f) ==
    IF ~f.present THEN Reply(500, ResultMissing)
    ELSE LET parsed == json_loads(f.text)
         IN  IF parsed.ok
             THEN [Reply(200, Complete) EXCEPT !.data = parsed.data]
             ELSE Reply(500, ResultMalformed)

Reading ==
    /\ pc = "reading"
    /\ calls' = Append(calls, Call("read", IF result_file.present THEN "found" ELSE "absent"))
    /\ http' = ReadResult(result_file)
    /\ pc' = "done"
    /\ UNCHANGED <<question_text, submitted, attempt, response, execution_result,
                   count, new_question_text, response_questions, gpt_ans,
                   final_result, result_file, offered, ran>>
    /\ UNCHANGED dvars

Next ==
    \/ Start
    \/ Planning1
    \/ Executing1
    \/ Replanning
    \/ RetryExecuting
    \/ Planning2
    \/ Executing2
    \/ Reading

Spec == Init /\ [][Next]_vars

\* Every await of the handler returns: the collaborators answer or raise.
FairSpec == Spec /\ WF_vars(Next)

(***************************************************************************)
(* One call of last_n_words on a bounded string and word count.            *)
(***************************************************************************)
Strings == UNION {[1..n -> Chars] : n \in 0..MaxStrLen}

DigestInit ==
    /\ WorkflowInit
    /\ dS \in Strings
    /\ dN \in 0..MaxN
    /\ dOut = <<>>
    /\ dpc = "call"

DigestCall ==
    /\ dpc = "call"
    /\ dOut' = last_n_words(dS, dN)
    /\ dpc' = "returned"
    /\ UNCHANGED <<dS, dN>>
    /\ UNCHANGED wfvars

DigestNext == DigestCall

SpecDigest == DigestInit /\ [][DigestNext]_vars

(***************************************************************************)
(* Reading the log of collaborator calls.                                  *)
(***************************************************************************)
Count(ops) == Cardinality({i \in DOMAIN calls : calls[i].op \in ops})
Every(ops, results) == \A i \in DOMAIN calls : calls[i].op \in ops => calls[i].res \in results
Some(ops, results) == \E i \in DOMAIN calls : calls[i].op \in ops /\ calls[i].res \in results

PlannerOps == {"plan", "replan"}
ExecutorOps == {"run", "rerun", "final"}
Done == pc = "done"
\* The submitted form held no question, or an empty one.
EmptyOrAbsent(q) == q.tag = "None" \/ q.words = <<>>
\* The form was read and held a question.
Started == pc # "start" /\ ~EmptyOrAbsent(submitted)

\* C1: when every call of parse_question_with_llm raises, the run makes exactly
\* three attempts of the first planning stage, ends with the planning-exhausted
\* failure, and run_python_code is never called.
C1_PlanningExhausted ==
    Every(PlannerOps, {"raise"}) =>
        /\ Count(ExecutorOps) = 0
        /\ Count({"plan"}) <= 3
        /\ (Done /\ Started) =>
              /\ Count({"plan"}) = 3
              /\ http = Reply(500, PlanningExhausted)

C1_Witness ==
    /\ Done /\ Started
    /\ Every(PlannerOps, {"raise"})
    /\ Count({"plan"}) = 3

\* The accepted plans all have their data-collection code fail.
AlwaysFailing ==
    /\ Every(PlannerOps, {"accepted"})
    /\ Every({"run", "rerun"}, {"failure"})

\* C2: when every plan is accepted and every execution fails, the run makes
\* exactly four executions (one and three retries), ends with the
\* execution-exhausted failure, and never enters the second planning stage.
C2_ExecutionExhausted ==
    AlwaysFailing =>
        /\ pc \notin {"planning2", "executing2", "reading"}
        /\ Count({"analysis", "final", "read"}) = 0
        /\ Count({"run", "rerun"}) <= 4
        /\ (Done /\ Started) =>
              /\ Count({"run"}) = 1
              /\ Count({"rerun"}) = 3
              /\ http = Reply(500, ExecutionExhausted)

C2_Witness ==
    /\ Done /\ Started
    /\ AlwaysFailing
    /\ Count({"run", "rerun"}) = 4

\* C3 as stated: in that scenario the run makes exactly four re-planning calls.
C3_FourReplans ==
    (Done /\ Started /\ AlwaysFailing) => Count({"replan"}) = 4

\* C3, amended: in that scenario the run makes exactly three re-planning calls,
\* one before each of the executions 2 to 4.
C3_ThreeReplans ==
    (Done /\ Started /\ AlwaysFailing) =>
        /\ Count({"replan"}) = 3
        /\ calls = <<Call("plan", "accepted"), Call("run", "failure"),
                     Call("replan", "accepted"), Call("rerun", "failure"),
                     Call("replan", "accepted"), Call("rerun", "failure"),
                     Call("replan", "accepted"), Call("rerun", "failure")>>

C3_Witness ==
    /\ Done /\ Started
    /\ AlwaysFailing
    /\ Count({"replan"}) = 3

\* C4: when the data collection succeeded and every answer of answer_with_data is
\* malformed, the run makes exactly three attempts of the second planning stage,
\* ends with the analysis-planning failure, and the final execution is never made.
C4_AnalysisPlanningExhausted ==
    (Some({"run", "rerun"}, {"success"}) /\ Every({"analysis"}, {"malformed"})) =>
        /\ Count({"final"}) = 0
        /\ Count({"analysis"}) <= 3
        /\ Done =>
              /\ Count({"analysis"}) = 3
              /\ http = Reply(500, AnalysisPlanningExhausted)

C4_Witness ==
    /\ Done
    /\ Some({"run", "rerun"}, {"success"})
    /\ Every({"analysis"}, {"malformed"})
    /\ Count({"analysis"}) = 3

\* C5: the final execution is made at most once; when it fails the run is over
\* at once with the final-execution failure carrying that execution's output,
\* and nothing is called or read after it.
C5_FinalExecutionOnce ==
    /\ Count({"final"}) <= 1
    /\ Some({"final"}, {"failure"}) =>
          /\ Done
          /\ calls[Len(calls)] = Call("final", "failure")
          /\ Count({"read"}) = 0
          /\ http.status = 500
          /\ http.message = FinalExecutionFailed
          /\ http.details = final_result.output

C5_Witness ==
    /\ Some({"final"}, {"failure"})
    /\ final_result.output = ErrLong

\* No call of the run failed so far.
AllSucceeded == Every(PlannerOps \cup ExecutorOps \cup {"analysis"}, {"accepted", "success"})

\* C6: when the question is not empty, both plans are accepted at once, both
\* executions succeed and the final one writes a well-formed result.json, the
\* run is complete after two planner calls and two executions and returns the
\* data that was written.
C6_HappyPath ==
    (Done /\ Started /\ AllSucceeded /\ result_file.by = "exec2"
          /\ result_file.text \in {TextObj1, TextObj2}) =>
        /\ Count({"plan", "replan", "analysis"}) = 2
        /\ Count(ExecutorOps) = 2
        /\ http.status = 200
        /\ http.message = Complete
        /\ result_file.text = TextObj1 => http.data = [avg |-> 1]
        /\ result_file.text = TextObj2 => http.data = [avg |-> 2]

C6_Witness ==
    /\ Done /\ Started /\ AllSucceeded
    /\ result_file = File(TextObj2, "exec2")
    /\ http.status = 200

\* C7: after a successful final execution the response is decided by result.json
\* alone: absent gives the result-missing failure, present but not parseable the
\* result-malformed failure; the file is read once and nothing is called after.
C7_ResultReader ==
    (Done /\ Some({"final"}, {"success"})) =>
        /\ Count({"final"}) = 1
        /\ Count({"read"}) = 1
        /\ calls[Len(calls)].op = "read"
        /\ calls[Len(calls) - 1] = Call("final", "success")
        /\ ~result_file.present => http = Reply(500, ResultMissing)
        /\ (result_file.present /\ result_file.text \notin {TextObj1, TextObj2}) =>
              http = Reply(500, ResultMalformed)
        /\ (result_file.present /\ result_file.text \in {TextObj1, TextObj2}) =>
              http.status = 200

C7_Witness ==
    /\ Done
    /\ Some({"final"}, {"success"})
    /\ result_file.present
    /\ result_file.text = TextBad
    /\ http.message = ResultMalformed

\* C8: when the question is empty or absent the run is over at once with the
\* missing-input failure, and no collaborator is ever called.
C8_MissingInput ==
    (pc # "start" /\ EmptyOrAbsent(submitted)) =>
        /\ Done
        /\ http = Reply(400, MissingInput)
        /\ calls = <<>>

C8_Witness ==
    /\ Done
    /\ submitted = PyStr(<<>>)
    /\ http.message = MissingInput

\* The last k of the words ws.
LastK(ws, k) == SubSeq(ws, Len(ws) - k + 1, Len(ws))

\* C9: for every n >= 0 and every string s, last_n_words(s, n) holds at most n
\* words, and they are the last min(n, number of words of s) words of s, in
\* order, joined by single spaces.
C9_LastNWords ==
    dpc = "returned" =>
        LET ws == split(dS)
            want == LastK(ws, Min(dN, Len(ws)))
        IN  /\ Len(split(dOut)) <= dN
            /\ split(dOut) = want
            /\ dOut = join(want)

\* No collaborator raised so far.
NoRaise == \A i \in DOMAIN calls : calls[i].res # "raise"

TypedOutcomes ==
    {Complete, MissingInput, PlanningExhausted, ExecutionExhausted,
     AnalysisPlanningExhausted, FinalExecutionFailed, ResultMissing, ResultMalformed}

C10_Bounds ==
    /\ Count({"plan"}) <= 3
    /\ Count({"replan"}) <= 3
    /\ Count({"analysis"}) <= 3
    /\ Count(ExecutorOps) <= 5
    /\ (Done /\ NoRaise) => http.message \in TypedOutcomes

\* C10: whatever the collaborators answer, the run ends, after at most three
\* first-stage planning calls, three re-planning calls, three second-stage
\* planning calls and five executions; when no collaborator raised it ends
\* complete or with one of the failures of the handler.
C10_BoundedRun == []C10_Bounds /\ <>Done

C10_Witness ==
    /\ Done
    /\ Count({"plan"}) = 3
    /\ Count({"replan"}) = 3
    /\ Count({"analysis"}) = 3
    /\ Count(ExecutorOps) = 5

CountRes(ops, results) ==
    Cardinality({i \in DOMAIN calls : calls[i].op \in ops /\ calls[i].res \in results})

\* C11: an exception of run_python_code, at any of its three call sites, is
\* absorbed by the handler: the run ends complete or with one of the failures of
\* the handler, not with the exception.
C11_ExecutorFaultAbsorbed ==
    (Done /\ Some(ExecutorOps, {"raise"})) => http.message \in TypedOutcomes

\* The number of error feedbacks appended to the words w.
Feedbacks(w) ==
    Cardinality({i \in 1..(Len(w) - 1) : w[i] = "Previous" /\ w[i + 1] = "attempt"})

\* C12 as stated: every failed planning attempt, raised or malformed, appends one
\* error feedback to the input of its stage.
C12_EveryFailureFeedsBack ==
    /\ Feedbacks(question_text.words) = CountRes({"plan"}, {"raise", "malformed"})
    /\ Feedbacks(str(response_questions)) = CountRes({"analysis"}, {"raise", "malformed"})

\* C12, amended: every planning attempt that raised appends one error feedback to
\* the input of its stage (the question text in the first stage, the questions
\* value in the second); a malformed answer appends nothing.
C12_RaiseFeedsBack ==
    /\ Feedbacks(question_text.words) = CountRes({"plan"}, {"raise"})
    /\ Feedbacks(str(response_questions)) = CountRes({"analysis"}, {"raise"})

C12_Witness ==
    /\ CountRes({"plan"}, {"raise"}) = 1
    /\ CountRes({"plan"}, {"malformed"}) = 1
    /\ CountRes({"analysis"}, {"raise"}) = 2
    /\ CountRes({"analysis"}, {"malformed"}) = 1

\* The questions field of a planner answer, None when it has none.
QuestionsOf(r) == IF "questions" \in r.keys THEN r.questions ELSE PyNone

\* Each feedback carries at most limit words of the error or output: five words
\* of introduction and the digest per raised planning attempt, and the question
\* text, twelve words of instruction and the digest in a re-planning prompt.
DigestBounded(limit) ==
    /\ Len(question_text.words) <=
          Len(submitted.words) + CountRes({"plan"}, {"raise"}) * (5 + limit)
    /\ new_question_text # <<>> =>
          Len(new_question_text) <= Len(question_text.words) + 12 + limit
    /\ Count({"analysis"}) > 0 =>
          Len(str(response_questions)) <=
             Len(str(QuestionsOf(response))) + CountRes({"analysis"}, {"raise"}) * (5 + limit)

\* C13 as stated: every error digest put in a follow-up prompt holds at most 25
\* words, at all three feedback points.
C13_Digest25 == DigestBounded(25)

\* C13, amended: every error digest put in a follow-up prompt holds at most 50
\* words, at all three feedback points.
C13_Digest50 == DigestBounded(50)

C13_Witness ==
    /\ CountRes({"plan"}, {"raise"}) = 1
    /\ Len(question_text.words) = Len(submitted.words) + 55
    /\ Len(new_question_text) = Len(question_text.words) + 62
    /\ CountRes({"analysis"}, {"raise"}) = 1
    /\ Len(str(response_questions)) = Len(str(QuestionsOf(response))) + 55

\* C14: in the retry loop a malformed re-planning answer uses up one of the three
\* retries and is followed by no execution; when the first execution fails and
\* every re-planning answer is malformed, the run ends with the
\* execution-exhausted failure after one execution and three re-planning calls.
C14_MalformedReplanUsesRetry ==
    /\ count = CountRes({"replan"}, {"malformed"}) + CountRes({"rerun"}, {"success", "failure"})
    /\ \A i \in DOMAIN calls :
          (calls[i] = Call("replan", "malformed") /\ i < Len(calls)) =>
              calls[i + 1].op = "replan"
    /\ (Done /\ Some({"run"}, {"failure"}) /\ Every({"replan"}, {"malformed"})) =>
          /\ Count({"replan"}) = 3
          /\ Count(ExecutorOps) = 1
          /\ http = Reply(500, ExecutionExhausted)

C14_Witness ==
    /\ Done
    /\ Some({"run"}, {"failure"})
    /\ Every({"replan"}, {"malformed"})
    /\ Count({"replan"}) = 3
    /\ count = 3

\* C15: an exception of parse_question_with_llm in a re-planning call is absorbed:
\* it uses up one retry and the loop goes on, and the run ends because of it only
\* with the execution-exhausted failure.
C15_ReplanFaultAbsorbed ==
    (calls # <<>> /\ calls[Len(calls)] = Call("replan", "raise")) =>
        /\ count = CountRes({"replan"}, {"malformed", "raise"})
                     + CountRes({"rerun"}, {"success", "failure"})
        /\ Done => http = Reply(500, ExecutionExhausted)

\* The prompt made of the question q, the last 50 words of the output out and
\* the instruction to correct the code.
ExpectedPrompt(q, out) ==
    q \o <<"The", "previous", "code", "failed", "with", "this", "error:">>
      \o WithFullStop(LastK(out, Min(50, Len(out))))
      \o <<"Please", "provide", "a", "corrected", "version.">>

JustReplanned == calls # <<>> /\ calls[Len(calls)].op = "replan"

\* C16 as stated: every re-planning prompt is the question as submitted, without
\* the error feedback of the first planning stage, followed by the digest of the
\* most recent execution output and the instruction.
C16_PromptFromSubmitted ==
    JustReplanned =>
        new_question_text = ExpectedPrompt(submitted.words, execution_result.output)

\* A step of the retry loop keeps the question text.
LoopKeepsQuestion ==
    pc \in {"replanning", "retry_executing"} => question_text' = question_text

\* C16, amended: every re-planning prompt is the question text as the first
\* planning stage left it (the submitted question and the error feedback that
\* stage appended), followed by the digest of the most recent execution output
\* alone and the instruction; the retry loop never changes the question text.
C16_PromptFromQuestionText ==
    /\ [](JustReplanned =>
            new_question_text = ExpectedPrompt(question_text.words, execution_result.output))
    /\ [][LoopKeepsQuestion]_vars

C16_Witness ==
    /\ JustReplanned
    /\ Count({"replan"}) = 2
    /\ CountRes({"plan"}, {"raise"}) = 1
    /\ execution_result.output = ErrShort
    /\ question_text # submitted

\* A planner answer that is a mapping with a code field.
IsPlan(r) == r.py = "dict" /\ "code" \in r.keys

\* The second planning stage is entered and answer_with_data was not called yet.
EnteringPlanning2 == pc = "planning2" /\ Count({"analysis"}) = 0

\* C17: when the second planning stage is entered, the questions value given to
\* the first call of answer_with_data is the questions field of the last planner
\* answer, which is an accepted plan and the one whose code was just executed
\* with success; it is never that of a rejected answer or of a plan that failed.
C17_QuestionsOfSuccessfulPlan ==
    EnteringPlanning2 =>
        /\ calls[Len(calls)].op \in {"run", "rerun"}
        /\ calls[Len(calls)].res = "success"
        /\ calls[Len(calls) - 1].op \in PlannerOps
        /\ calls[Len(calls) - 1].res = "accepted"
        /\ IsPlan(offered)
        /\ ran.code = offered.code
        /\ response_questions = QuestionsOf(offered)

C17_Witness ==
    /\ EnteringPlanning2
    /\ Some({"replan"}, {"malformed"})
    /\ Some({"rerun"}, {"failure"})
    /\ response_questions = PyList(<<"q1", "q2">>)

\* C18: every call of run_python_code comes right after a planner call that
\* returned an accepted plan, and is given the code and the libraries of that
\* plan; so no plan is executed twice and nothing is executed after a rejected
\* answer without a new accepted plan.
C18_FreshPlanPerExecution ==
    /\ \A i \in DOMAIN calls :
          calls[i].op \in ExecutorOps =>
              /\ i > 1
              /\ calls[i - 1].res = "accepted"
              /\ calls[i - 1].op = (CASE calls[i].op = "run" -> "plan"
                                      [] calls[i].op = "rerun" -> "replan"
                                      [] OTHER -> "analysis")
    /\ (calls # <<>> /\ calls[Len(calls)].op \in ExecutorOps) =>
          /\ IsPlan(offered)
          /\ ran.code = offered.code
          /\ ran.libraries =
                (IF "libraries" \in offered.keys THEN offered.libraries ELSE "[]")

C18_Witness ==
    /\ calls # <<>>
    /\ calls[Len(calls)].op = "rerun"
    /\ Some({"replan"}, {"malformed"})
    /\ ran = [code |-> "scrape_a", libraries |-> "['pandas']"]

\* A data-collection execution succeeded, an analysis plan was accepted, the
\* final execution succeeded, and result.json was read and holds well-formed data.
SuccessPath ==
    /\ Some({"run", "rerun"}, {"success"})
    /\ Some({"analysis"}, {"accepted"})
    /\ Some({"final"}, {"success"})
    /\ calls[Len(calls)] = Call("read", "found")
    /\ result_file.text \in {TextObj1, TextObj2}

\* C19: the caller gets a success payload only when a data-collection execution
\* succeeded, an analysis plan was accepted, the final execution succeeded and
\* result.json was read and parsed; every other run ends with a failure that
\* carries no payload.
C19_CompleteOnlyAfterAllStages ==
    /\ http.status = 200 => (Done /\ SuccessPath /\ http.message = Complete)
    /\ (Done /\ ~SuccessPath) => (http.status \in {400, 500} /\ http.data = NoData)
    /\ (Done /\ SuccessPath) => http.status = 200

C19_Witness ==
    /\ Done
    /\ http.status = 200
    /\ Some({"rerun"}, {"success"})
    /\ Some({"analysis"}, {"raise"})

\* C20: the data returned on completion was written by the final execution of the
\* run; when that execution succeeds without writing result.json the run ends
\* with the result-missing failure, even if a result.json was already in the
\* folder (uploaded, or written by a data-collection execution).
C20_ResultFromFinalExecution ==
    (Done /\ Some({"final"}, {"success"})) =>
        /\ http.status = 200 => result_file.by = "exec2"
        /\ result_file.by # "exec2" => http = Reply(500, ResultMissing)

====
